---- MODULE Spec2Model ----
(***************************************************************************)
(* Decoding evaluation workflow of exploration_mvpa.ipynb: select_data,    *)
(* svm_loro_cv, run_class_zmap and print_class_accuracy, with the parts of *)
(* nilearn's Decoder and scikit-learn's LeaveOneGroupOut that the notebook *)
(* calls, and the six sweep cells that fill the results DataFrame.         *)
(*                                                                         *)
(* Numbers that the notebook holds as floats (fold scores, their mean, the *)
(* chance level) are exact rationals <<numerator, denominator>> here.      *)
(***************************************************************************)
EXTENDS Integers, Sequences, FiniteSets, TLC

VARIABLES
    table,          \* the label table of the evaluation: rows [labels, chunks]
    pc,             \* position inside the evaluation
    call,           \* the call being evaluated: [fn, mask, conditions_arr]
    sel,            \* result of the selection step: [fmri_sel, cond_sel, run_sel]
    folds,          \* folds yielded by LeaveOneGroupOut.split, ascending
    decoder,        \* the Decoder being fitted: [classes_, cv_scores_, nfit, masker_]
    pred,           \* predictions of the fold fitted last: position -> label
    out,            \* what the call gave: [kind, classification_accuracy, chance_level, err]
    cell,           \* sweep: index of the cell being run (0 outside the sweep)
    res,            \* sweep: the res_* variables of the kernel, in cell order
    df,             \* sweep: the results DataFrame, or NoFrame
    clf,            \* sweep: the (deterministic) classifier's quality per cell
    fmri,           \* the image of the evaluation: one voxel's value per frame
    workers,        \* cells run out of order: the position of each cell's call
    glm,            \* GLM patterns: the per-run lists, the loop position, the three lists
    act             \* activation notebook: the drift order, the contrasts, calc_prop_sig

vars == <<table, pc, call, sel, folds, decoder, pred, out, cell, res, df, clf,
          fmri, workers, glm, act>>

-----------------------------------------------------------------------------
(* Bounds of the model *)

MaxLen == 4

MaxRun == 2

MaxGlmRuns == 3

MaxBalancedRuns == 3

-----------------------------------------------------------------------------
(* Data *)

\* labels that occur in the label table
Labels == {"face", "house", "cat"}

Runs == 0..MaxRun

\* the condition arrays handed to an evaluation; "shoe" is in no table of Spec
ConditionArrays == {{"face", "house"}, {"cat", "shoe"}, {"face", "house", "shoe"}}

Masks == {"mask_vt", "mask_face", "mask_house"}

\* np.unique order of the class labels (alphabetical)
ClassOrder == <<"cat", "face", "house", "shoe">>

\* no DataFrame has been built
NoFrame == <<>>

\* Python's None, the value of a call that returns nothing
None == <<>>

\* a res_* name the kernel has not bound
Unbound == [bound |-> FALSE, value |-> <<0, 1>>]

Bound(v) == [bound |-> TRUE, value |-> v]

-----------------------------------------------------------------------------
(* Exact rationals <<n, d>>, n >= 0, d > 0 *)

RECURSIVE Gcd(_, _)
Gcd(a, b) == IF b = 0 THEN a ELSE Gcd(b, a % b)

\* the same rational in lowest terms
Norm(r) == <<r[1] \div Gcd(r[1], r[2]), r[2] \div Gcd(r[1], r[2])>>

RAdd(a, b) == Norm(<<a[1] * b[2] + b[1] * a[2], a[2] * b[2]>>)

REq(a, b) == a[1] * b[2] = b[1] * a[2]

RLe(a, b) == a[1] * b[2] <= b[1] * a[2]

RECURSIVE RSum(_)
RSum(s) == IF s = <<>> THEN <<0, 1>> ELSE RAdd(Head(s), RSum(Tail(s)))

\* nan, the value of np.mean([]), as 0/0
NaN == <<0, 0>>

IsNaN(r) == r[2] = 0

\* a sum where the mean is meant
NpSumNoDivide(s) == IF s = <<>> THEN NaN ELSE RSum(s)

\* np.mean of a flat list: nan for the empty list
NpMean(s) ==
    IF s = <<>> THEN NaN
    ELSE LET t == RSum(s) IN Norm(<<t[1], t[2] * Len(s)>>)

-----------------------------------------------------------------------------
(* Selection *)

Column(t, name) == [i \in 1..Len(t) |-> t[i][name]]

\* boolean-mask indexing of pandas / numpy / index_img: the entries whose
\* mask is True, in their order
RECURSIVE BoolIndex(_, _)
BoolIndex(s, m) ==
    IF s = <<>> THEN <<>>
    ELSE (IF Head(m) THEN <<Head(s)>> ELSE <<>>) \o BoolIndex(Tail(s), Tail(m))

\* a comparison with one condition where isin is meant
IsInFirstOnly(s, arr) ==
    [i \in 1..Len(s) |-> arr # {} /\ s[i] = (CHOOSE c \in arr : TRUE)]

\* Series.isin(conditions_arr)
IsIn(s, arr) == [i \in 1..Len(s) |-> s[i] \in arr]

\* a mask that is True everywhere as soon as one label is in categories
ListInWhole(s, arr) == [i \in 1..Len(s) |-> \E j \in 1..Len(s) : s[j] \in arr]

\* [x in categories for x in task_label_arg], numpy's (categories == x).any()
ListIn(s, arr) == [i \in 1..Len(s) |-> \E c \in arr : c = s[i]]

\* the frames of an image (or the entries of z_maps), named by their position
Frames(t) == [i \in 1..Len(t) |-> i]

\* an image whose voxel values the evaluation never looks at: the classifier
\* of the evaluation is opaque
BlankImage(t) == [i \in 1..Len(t) |-> 0]

\* a selection that returns the run column whole
select_data_RunsUnmasked(fmri_str, behavioral, conditions_arr) ==
    LET condition_mask == IsIn(Column(behavioral, "labels"), conditions_arr)
    IN  [fmri_sel |-> BoolIndex(fmri_str, condition_mask),
         cond_sel |-> BoolIndex(Column(behavioral, "labels"), condition_mask),
         run_sel  |-> Column(behavioral, "chunks")]

select_data(fmri_str, behavioral, conditions_arr) ==
    LET condition_mask == IsIn(Column(behavioral, "labels"), conditions_arr)
    IN  [fmri_sel |-> BoolIndex(fmri_str, condition_mask),
         cond_sel |-> BoolIndex(Column(behavioral, "labels"), condition_mask),
         run_sel  |-> BoolIndex(Column(behavioral, "chunks"), condition_mask)]

\* the selection step of run_class_zmap
zmap_select(z_maps_arg, task_label_arg, run_label_arg, categories) ==
    LET sel_mask == ListIn(task_label_arg, categories)
    IN  [fmri_sel |-> BoolIndex(z_maps_arg, sel_mask),
         cond_sel |-> BoolIndex(task_label_arg, sel_mask),
         run_sel  |-> BoolIndex(run_label_arg, sel_mask)]

-----------------------------------------------------------------------------
(* Standardization by the Decoder's masker *)

\* values of the voxel in a frame
Voxel == {0, 1}

\* standardize='zscore_sample' in svm_loro_cv, standardize=False in
\* run_class_zmap
Standardize(fn) == fn = "svm_loro_cv"

\* the voxel's values in the selected frames
Samples(img, fmri_sel) == [k \in 1..Len(fmri_sel) |-> img[fmri_sel[k]]]

RECURSIVE SeqSum(_)
SeqSum(x) == IF x = <<>> THEN 0 ELSE Head(x) + SeqSum(Tail(x))

\* mean and sample variance (ddof = 1) of a series of two or more values:
\* what the z-score of the series subtracts and divides by
ZScoreStats(x) ==
    LET n == Len(x)
        s1 == SeqSum(x)
        s2 == SeqSum([k \in 1..n |-> x[k] * x[k]])
    IN  [standardize |-> TRUE,
         mean |-> Norm(<<s1, n>>),
         var |-> Norm(<<n * s2 - s1 * s1, n * (n - 1)>>)]

NoStats == [standardize |-> FALSE, mean |-> <<0, 1>>, var |-> <<1, 1>>]

\* the masker of Decoder.fit transforms X before the folds are split: with
\* standardize on, every voxel is z-scored over all the samples of X
MaskerFitTransform(standardize, x) ==
    IF standardize /\ Len(x) >= 2 THEN ZScoreStats(x) ELSE NoStats

-----------------------------------------------------------------------------
(* Fold Partitioner: sklearn.model_selection.LeaveOneGroupOut *)

Range(s) == {s[i] : i \in DOMAIN s}

RECURSIVE SortedSeq(_)
SortedSeq(S) ==
    IF S = {} THEN <<>>
    ELSE LET m == CHOOSE x \in S : \A y \in S : x <= y
         IN  <<m>> \o SortedSeq(S \ {m})

\* the distinct values in the order of their first occurrence (pandas.unique)
RECURSIVE FirstSeen(_)
FirstSeen(s) ==
    IF s = <<>> THEN <<>>
    ELSE LET r == FirstSeen(SubSeq(s, 1, Len(s) - 1))
         IN  IF s[Len(s)] \in Range(r) THEN r ELSE Append(r, s[Len(s)])

\* the groups taken in the order they occur where np.unique sorts them
np_unique_Unsorted(groups) == FirstSeen(groups)

\* np.unique(groups): the distinct values, ascending
np_unique(groups) == SortedSeq(Range(groups))

\* test mask of the fold that holds out group g: groups == g
TestIdx(groups, g) == {i \in DOMAIN groups : groups[i] = g}

\* a split that trains on every observation, the held-out run included
TrainIdxLeaky(groups, g) == DOMAIN groups

\* train indices: the complement of the test mask
TrainIdx(groups, g) == {i \in DOMAIN groups : ~(groups[i] = g)}

\* LeaveOneGroupOut().split(X, y, groups): one (train, test) per unique group
LeaveOneGroupOut(groups) ==
    LET ug == np_unique(groups)
    IN  [k \in 1..Len(ug) |->
            [held |-> ug[k], test |-> TestIdx(groups, ug[k]),
             train |-> TrainIdx(groups, ug[k])]]

-----------------------------------------------------------------------------
(* Per-Fold Classifier: nilearn.decoding.Decoder *)

Accuracy == "accuracy"
RocAuc == "roc_auc"

\* every Decoder left to its default scoring
ScoringDefault(fn) == RocAuc

\* scoring='accuracy' in svm_loro_cv; run_class_zmap passes none and gets the
\* Decoder's default
Scoring(fn) == IF fn = "svm_loro_cv" THEN Accuracy ELSE RocAuc

\* classes_ of a fitted decoder: the distinct labels of y
Classes(y) == Range(y)

LabelsAt(y, idx) == {y[i] : i \in idx}

\* accuracy_score of one fold: exact matches over the test observations
AccuracyScore(y, test, p) ==
    <<Cardinality({i \in test : p[i] = y[i]}), Cardinality(test)>>

ClassRank(c) == CHOOSE k \in 1..Len(ClassOrder) : ClassOrder[k] = c

\* the label the binarized problem codes as +1 (classes_[1]) and as -1
PosClass(classes_) ==
    CHOOSE c \in classes_ : \A o \in classes_ : ClassRank(o) <= ClassRank(c)

NegClass(classes_) ==
    CHOOSE c \in classes_ : \A o \in classes_ : ClassRank(c) <= ClassRank(o)

\* values of the estimator's decision_function on a test observation
Decision == {-3, -2, -1, 1, 2, 3}

\* predict: the positive class where the decision value is positive
Predict(d, classes_) ==
    [i \in DOMAIN d |-> IF d[i] > 0 THEN PosClass(classes_) ELSE NegClass(classes_)]

\* an AUC that takes the other class for the positive one
RocAucScoreSwapped(y, test, c, d) ==
    LET pos == {i \in test : y[i] = c}
        neg == {i \in test : y[i] # c}
    IN  <<2 * Cardinality({q \in pos \X neg : d[q[1]] < d[q[2]]})
            + Cardinality({q \in pos \X neg : d[q[1]] = d[q[2]]}),
          2 * Cardinality(pos) * Cardinality(neg)>>

\* roc_auc_score of one fold for the problem "c against the rest" from its
\* decision values: the share of (positive, negative) test pairs ranked in
\* order, a tie counting one half
RocAucScore(y, test, c, d) ==
    LET pos == {i \in test : y[i] = c}
        neg == {i \in test : y[i] # c}
    IN  <<2 * Cardinality({q \in pos \X neg : d[q[1]] > d[q[2]]})
            + Cardinality({q \in pos \X neg : d[q[1]] = d[q[2]]}),
          2 * Cardinality(pos) * Cardinality(neg)>>

\* the fold's score of a two-class problem under the Decoder's scoring
FoldScore(scoring, y, test, d) ==
    IF scoring = Accuracy
    THEN AccuracyScore(y, test, Predict(d, Classes(y)))
    ELSE RocAucScore(y, test, PosClass(Classes(y)), d)

\* a two-class problem is fitted once and its score is filed under both classes
BinaryScores(scoring, y, test, d) ==
    [c \in Classes(y) |-> FoldScore(scoring, y, test, d)]

\* why Decoder.fit raises on this input before any fold is fitted, or "none"
FitRejects(y, groups) ==
    IF Len(y) = 0 THEN "ValueError: 0 samples"
    ELSE IF Cardinality(Range(groups)) <= 1
         THEN "ValueError: fewer than 2 unique groups"
         ELSE "none"

\* why fitting or scoring fold f raises, or "none"
FoldRejects(y, f, scoring) ==
    IF Cardinality(Classes(y)) < 2 \/ LabelsAt(y, f.train) # Classes(y)
    THEN "ValueError: one class in train"
    ELSE IF scoring = RocAuc /\ LabelsAt(y, f.test) # Classes(y)
         THEN "ValueError: one class in y_true"
         ELSE "none"

-----------------------------------------------------------------------------
(* Accuracy Aggregator: print_class_accuracy *)

\* list(d.cv_scores_.values()) flattened by np.mean: the per-class lists, in
\* class order, one after the other
RECURSIVE FlatValues(_, _, _)
FlatValues(cv_scores_, classes_, k) ==
    IF k > Len(ClassOrder) THEN <<>>
    ELSE (IF ClassOrder[k] \in classes_ THEN cv_scores_[ClassOrder[k]] ELSE <<>>)
         \o FlatValues(cv_scores_, classes_, k + 1)

ClassificationAccuracy(d) == NpMean(FlatValues(d.cv_scores_, d.classes_, 1))

\* one over the number of folds where the number of classes is meant
ChanceLevelPerFold(d) == <<1, d.nfit>>

\* 1. / len(d.classes_); only read when the division does not raise
ChanceLevel(d) == <<1, Cardinality(d.classes_)>>

\* a function that prints the two numbers and returns nothing
print_class_accuracy_NoReturn(d) ==
    [raised |-> IF Cardinality(d.classes_) = 0 THEN "ZeroDivisionError" ELSE "none",
     classification_accuracy |-> None,
     chance_level |-> ChanceLevel(d)]

\* the two numbers it prints; it returns classification_accuracy
print_class_accuracy(d) ==
    [raised |-> IF Cardinality(d.classes_) = 0 THEN "ZeroDivisionError" ELSE "none",
     classification_accuracy |-> ClassificationAccuracy(d),
     chance_level |-> ChanceLevel(d)]

-----------------------------------------------------------------------------
(* State of an evaluation *)

NoCall == [fn |-> "none", mask |-> "none", conditions_arr |-> {}]

NoSel == [fmri_sel |-> <<>>, cond_sel |-> <<>>, run_sel |-> <<>>]

NoDecoder == [classes_ |-> {}, cv_scores_ |-> <<>>, nfit |-> 0, masker_ |-> NoStats]

NoOut == [kind |-> "none", err |-> "none",
          classification_accuracy |-> <<0, 1>>, chance_level |-> <<0, 1>>]

Raised(e) == [kind |-> "raised", err |-> e,
              classification_accuracy |-> <<0, 1>>, chance_level |-> <<0, 1>>]

\* the cells of the GLM patterns have not been run
NoGlm == [pc |-> "off"]

\* the cells of the activation notebook have not been run
NoAct == [pc |-> "off"]

\* the label tables an evaluation may be given: one row per frame
\* (rows in acquisition order: the functional file is the concatenation of
\* the runs, so the chunks never decrease)
Tables ==
    {t \in UNION {[1..n -> [labels : Labels, chunks : Runs]] : n \in 0..MaxLen} :
        \A i \in 1..(Len(t) - 1) : t[i].chunks <= t[i + 1].chunks}

-----------------------------------------------------------------------------
(* One evaluation: svm_loro_cv or run_class_zmap *)

\* the notebook calls fn(data, table, mask, conditions)
CallEval(fn, m, c) ==
    /\ pc = "idle"
    /\ call' = [fn |-> fn, mask |-> m, conditions_arr |-> c]
    /\ pc' = "select"
    /\ UNCHANGED <<table, sel, folds, decoder, pred, out, cell, res, df, clf,
                 fmri, workers, glm, act>>

\* the selection step: select_data in svm_loro_cv, the sel_mask lines in
\* run_class_zmap
Selection(c) ==
    IF c.fn = "svm_loro_cv"
    THEN select_data(Frames(table), table, c.conditions_arr)
    ELSE zmap_select(Frames(table), Column(table, "labels"),
                     Column(table, "chunks"), c.conditions_arr)

\* a selection step that filters the caller's label table in place
SelectDataInPlace ==
    /\ pc = "select"
    /\ sel' = Selection(call)
    /\ table' = BoolIndex(table, IsIn(Column(table, "labels"), call.conditions_arr))
    /\ pc' = "fit"
    /\ UNCHANGED <<call, folds, decoder, pred, out, cell, res, df, clf,
                   fmri, workers, glm, act>>

SelectData ==
    /\ pc = "select"
    /\ sel' = Selection(call)
    /\ pc' = "fit"
    /\ UNCHANGED <<table, call, folds, decoder, pred, out, cell, res, df, clf,
                 fmri, workers, glm, act>>

\* decoder.fit(X, y, groups=run_sel) refuses the selection
FitRaises ==
    /\ pc = "fit"
    /\ FitRejects(sel.cond_sel, sel.run_sel) # "none"
    /\ out' = Raised(FitRejects(sel.cond_sel, sel.run_sel))
    /\ pc' = "raised"
    /\ UNCHANGED <<table, call, sel, folds, decoder, pred, cell, res, df, clf,
                 fmri, workers, glm, act>>

\* decoder.fit(X, y, groups=run_sel) takes the folds from cv.split
FitSplit ==
    /\ pc = "fit"
    /\ FitRejects(sel.cond_sel, sel.run_sel) = "none"
    /\ folds' = LeaveOneGroupOut(sel.run_sel)
    /\ decoder' = [classes_ |-> Classes(sel.cond_sel),
                   cv_scores_ |-> [c \in Classes(sel.cond_sel) |-> <<>>],
                   nfit |-> 0,
                   masker_ |-> MaskerFitTransform(Standardize(call.fn),
                                                  Samples(fmri, sel.fmri_sel))]
    /\ pc' = "fold"
    /\ UNCHANGED <<table, call, sel, pred, out, cell, res, df, clf,
                 fmri, workers, glm, act>>

NextFold == folds[decoder.nfit + 1]

\* the fold's scores go to cv_scores_, one list per class
Scored(p, sc) ==
    /\ pred' = p
    /\ decoder' = [classes_ |-> decoder.classes_,
                   cv_scores_ |-> [c \in decoder.classes_ |->
                                      Append(decoder.cv_scores_[c], sc[c])],
                   nfit |-> decoder.nfit + 1,
                   masker_ |-> decoder.masker_]
    /\ pc' = IF decoder.nfit + 1 = Len(folds) THEN "print" ELSE "fold"
    /\ UNCHANGED <<table, call, sel, folds, out, cell, res, df, clf,
                 fmri, workers, glm, act>>

\* one fold fitted on its train subset and scored on its test subset; the
\* classifier is opaque, so its decision values on the test subset are arbitrary
FitFold ==
    /\ pc = "fold"
    /\ FoldRejects(sel.cond_sel, NextFold, Scoring(call.fn)) = "none"
    /\ \E d \in [NextFold.test -> Decision] :
            Scored(Predict(d, decoder.classes_),
                   BinaryScores(Scoring(call.fn), sel.cond_sel, NextFold.test, d))

\* the estimator or the scorer raises inside the fold
FoldRaises ==
    /\ pc = "fold"
    /\ FoldRejects(sel.cond_sel, NextFold, Scoring(call.fn)) # "none"
    /\ out' = Raised(FoldRejects(sel.cond_sel, NextFold, Scoring(call.fn)))
    /\ pc' = "raised"
    /\ UNCHANGED <<table, call, sel, folds, decoder, pred, cell, res, df, clf,
                 fmri, workers, glm, act>>

\* avg = print_class_accuracy(decoder), and the return of the evaluation
PrintClassAccuracy ==
    /\ pc = "print"
    /\ LET r == print_class_accuracy(decoder)
       IN  IF r.raised # "none"
           THEN out' = Raised(r.raised) /\ pc' = "raised"
           ELSE /\ out' = [kind |-> "returned", err |-> "none",
                           classification_accuracy |-> r.classification_accuracy,
                           chance_level |-> r.chance_level]
                /\ pc' = "done"
    /\ UNCHANGED <<table, call, sel, folds, decoder, pred, cell, res, df, clf,
                 fmri, workers, glm, act>>

Init ==
    /\ table \in Tables
    /\ pc = "idle"
    /\ call = NoCall
    /\ sel = NoSel
    /\ folds = <<>>
    /\ decoder = NoDecoder
    /\ pred = <<>>
    /\ out = NoOut
    /\ cell = 0
    /\ res = <<>>
    /\ df = NoFrame
    /\ clf = <<>>
    /\ fmri = BlankImage(table)
    /\ workers = <<>>
    /\ glm = NoGlm
    /\ act = NoAct

Next ==
    \/ \E fn \in {"svm_loro_cv", "run_class_zmap"}, c \in ConditionArrays :
            CallEval(fn, "mask_vt", c)
    \/ SelectData
    \/ FitRaises
    \/ FitSplit
    \/ FitFold
    \/ FoldRaises
    \/ PrintClassAccuracy

Spec == Init /\ [][Next]_vars

-----------------------------------------------------------------------------
(* Region/Contrast Sweep: the six res_* cells and the DataFrame cell *)

Conditions == {"cat", "face", "house", "shoe"}

\* the conditions of task_unique, in np.unique order
CondSeq(task_unique) == BoolIndex(ClassOrder, IsIn(ClassOrder, task_unique))

\* task_label_glm and run_label_glm as the GLM loop leaves them: for every
\* run index, one entry per condition of task_unique
GlmTable(nruns, task_unique) ==
    LET cs == CondSeq(task_unique)
    IN  [i \in 1..(nruns * Len(cs)) |->
            [labels |-> cs[((i - 1) % Len(cs)) + 1],
             chunks |-> (i - 1) \div Len(cs)]]

GlmTables ==
    {GlmTable(n, tu) : n \in 1..MaxGlmRuns, tu \in (SUBSET Conditions) \ {{}}}

FvH == {"face", "house"}
CvS == {"cat", "shoe"}

res_FvH_vtc == [name |-> "res_FvH_vtc", mask |-> "mask_vt", categories |-> FvH]

res_CvS_vtc == [name |-> "res_CvS_vtc", mask |-> "mask_vt", categories |-> CvS]

res_FvH_ppa == [name |-> "res_FvH_ppa", mask |-> "mask_house", categories |-> FvH]

\* a cell left for the student to fill in: the call of res_FvH_ppa with the
\* categories of res_CvS_vtc
res_CvS_ppa == [name |-> "res_CvS_ppa", mask |-> "mask_house", categories |-> CvS]

res_FvH_ffa == [name |-> "res_FvH_ffa", mask |-> "mask_face", categories |-> FvH]

\* a cell left for the student to fill in: the call of res_FvH_ffa with the
\* categories of res_CvS_vtc
res_CvS_ffa == [name |-> "res_CvS_ffa", mask |-> "mask_face", categories |-> CvS]

\* the cells in the order the notebook runs them
Combos ==
    <<res_FvH_vtc, res_CvS_vtc, res_FvH_ppa, res_CvS_ppa, res_FvH_ffa, res_CvS_ffa>>

NCells == Len(Combos)

\* an array that lists the results in the order the cells ran
RowCellInCellOrder == <<1, 2, 3, 4, 5, 6>>

\* the cell that holds each row of acc_all_data: res_FvH_vtc, res_FvH_ffa,
\* res_FvH_ppa, res_CvS_vtc, res_CvS_ffa, res_CvS_ppa
RowCell == <<1, 5, 3, 2, 6, 4>>

classification_categories ==
    <<"Faces vs. Places", "Faces vs. Places", "Faces vs. Places",
      "Cats vs. Shoes", "Cats vs. Shoes", "Cats vs. Shoes">>

region_of_interest == <<"VTC", "FFA", "PPA", "VTC", "FFA", "PPA">>

\* how well the deterministic classifier ranks the test pairs of a cell
Quality == {"perfect", "chance"}

\* a classifier that answers differently once the cell's name is bound, as
\* one that keeps state between two runs of the cell would
ClfDecisionStateful(q, y, c, test) ==
    [i \in test |-> IF q = "perfect" /\ y[i] # c /\ ~res[cell].bound THEN -1 ELSE 1]

\* a classifier that separates the classes only while no combination has
\* delivered its result, as one that shares state between workers would
ClfDecisionShared(q, y, c, test) ==
    [i \in test |->
        IF q = "perfect" /\ y[i] # c /\ \A w \in DOMAIN res : ~res[w].bound
        THEN -1 ELSE 1]

\* decision values of the deterministic classifier for "c against the rest":
\* "perfect" separates c from the rest, "chance" gives every observation the
\* same value
ClfDecision(q, y, c, test) ==
    [i \in test |-> IF q = "perfect" /\ y[i] # c THEN -1 ELSE 1]

\* its predictions: the true label, or the first class on a tie
ClfPredict(q, y, test) ==
    [i \in test |-> IF q = "perfect" THEN y[i] ELSE NegClass(Classes(y))]

\* its one-against-rest roc_auc scores, one per class
ClfScores(q, y, test) ==
    [c \in Classes(y) |-> RocAucScore(y, test, c, ClfDecision(q, y, c, test))]

\* the scores of one fold under the Decoder's scoring, one per class
ClfFoldScores(scoring, q, y, test) ==
    IF scoring = Accuracy
    THEN [c \in Classes(y) |-> AccuracyScore(y, test, ClfPredict(q, y, test))]
    ELSE ClfScores(q, y, test)

\* decoder.fit(X, y, groups) with a deterministic classifier, as a function of
\* its arguments: the exception it raises or the scores it leaves
DecoderFit(scoring, y, groups, q) ==
    LET fs == LeaveOneGroupOut(groups)
        bad == {k \in 1..Len(fs) : FoldRejects(y, fs[k], scoring) # "none"}
        first == CHOOSE k \in bad : \A j \in bad : k <= j
    IN  IF FitRejects(y, groups) # "none"
        THEN [raised |-> FitRejects(y, groups), classes_ |-> {},
              cv_scores_ |-> <<>>, nfit |-> 0]
        ELSE IF bad # {}
        THEN [raised |-> FoldRejects(y, fs[first], scoring), classes_ |-> {},
              cv_scores_ |-> <<>>, nfit |-> 0]
        ELSE [raised |-> "none", classes_ |-> Classes(y),
              cv_scores_ |-> [c \in Classes(y) |->
                    [k \in 1..Len(fs) |->
                        ClfFoldScores(scoring, q, y, fs[k].test)[c]]],
              nfit |-> Len(fs)]

\* what a call of an evaluation function gives once its decoder is fitted
Returned(d) ==
    IF d.raised # "none" THEN Raised(d.raised)
    ELSE IF print_class_accuracy(d).raised # "none"
    THEN Raised(print_class_accuracy(d).raised)
    ELSE [kind |-> "returned", err |-> "none",
          classification_accuracy |-> print_class_accuracy(d).classification_accuracy,
          chance_level |-> print_class_accuracy(d).chance_level]

\* run_class_zmap as a function of its arguments (the mask picks the voxels
\* the classifier q reads)
run_class_zmap(z_maps_arg, task_label_arg, run_label_arg, categories, q) ==
    LET s == zmap_select(z_maps_arg, task_label_arg, run_label_arg, categories)
    IN  Returned(DecoderFit(RocAuc, s.cond_sel, s.run_sel, q))

\* the cell that selects the face and house frames before select_data is
\* written: condition_mask, conditions_sel, run_label, fmri_sel
inline_select(fmri_arg, tr_info) ==
    LET condition_mask == IsIn(Column(tr_info, "labels"), {"face", "house"})
    IN  [fmri_sel |-> BoolIndex(fmri_arg, condition_mask),
         cond_sel |-> BoolIndex(Column(tr_info, "labels"), condition_mask),
         run_sel  |-> BoolIndex(Column(tr_info, "chunks"), condition_mask)]

\* the cell that fits the decoder on that selection, scoring='accuracy'
inline_decoder(fmri_arg, tr_info, q) ==
    LET s == inline_select(fmri_arg, tr_info)
    IN  DecoderFit(Accuracy, s.cond_sel, s.run_sel, q)

\* res_X = run_class_zmap(z_maps, task_label_glm, run_label_glm, mask, categories)
RunCell ==
    /\ pc = "idle"
    /\ cell \in 1..NCells
    /\ call' = [fn |-> "run_class_zmap", mask |-> Combos[cell].mask,
                conditions_arr |-> Combos[cell].categories]
    /\ sel' = NoSel
    /\ folds' = <<>>
    /\ decoder' = NoDecoder
    /\ pred' = <<>>
    /\ out' = NoOut
    /\ pc' = "select"
    /\ UNCHANGED <<table, cell, res, df, clf,
                 fmri, workers, glm, act>>

\* FitFold with a deterministic classifier
FitFoldClf ==
    /\ pc = "fold"
    /\ FoldRejects(sel.cond_sel, NextFold, Scoring(call.fn)) = "none"
    /\ Scored(ClfPredict(clf[cell], sel.cond_sel, NextFold.test),
              ClfFoldScores(Scoring(call.fn), clf[cell], sel.cond_sel,
                            NextFold.test))

\* a cell that binds the name of the cell before it
CellReturnsWrongName ==
    /\ pc = "done"
    /\ cell \in 1..NCells
    /\ res' = [res EXCEPT ![IF cell > 1 THEN cell - 1 ELSE cell] =
                                Bound(out.classification_accuracy)]
    /\ cell' = cell + 1
    /\ pc' = "idle"
    /\ UNCHANGED <<table, call, sel, folds, decoder, pred, out, df, clf,
                   fmri, workers, glm, act>>

\* the call returns avg_acc and the cell binds its name
CellReturns ==
    /\ pc = "done"
    /\ cell \in 1..NCells
    /\ res' = [res EXCEPT ![cell] = Bound(out.classification_accuracy)]
    /\ cell' = cell + 1
    /\ pc' = "idle"
    /\ UNCHANGED <<table, call, sel, folds, decoder, pred, out, df, clf,
                 fmri, workers, glm, act>>

\* the call raised: the cell ends with a traceback, its name stays unbound,
\* and a Run All stops there
KernelStops ==
    /\ pc = "raised"
    /\ cell \in 1..NCells
    /\ pc' = "halted"
    /\ UNCHANGED <<table, call, sel, folds, decoder, pred, out, cell, res, df, clf,
                 fmri, workers, glm, act>>

\* the call raised and the user runs the next cell by hand
UserRunsNext ==
    /\ pc = "raised"
    /\ cell \in 1..NCells
    /\ cell' = cell + 1
    /\ pc' = "idle"
    /\ UNCHANGED <<table, call, sel, folds, decoder, pred, out, res, df, clf,
                 fmri, workers, glm, act>>

AllBound == \A i \in 1..NCells : res[i].bound

Times100(r) == <<100 * r[1], r[2]>>

DataFrame(r) ==
    [i \in 1..NCells |->
        [accuracy |-> Times100(r[RowCell[i]].value),
         categories |-> classification_categories[i],
         roi |-> region_of_interest[i]]]

\* the cell that builds acc_all_data and df; an unbound res_* is a NameError
BuildFrame ==
    /\ pc = "idle"
    /\ cell = NCells + 1
    /\ IF AllBound
       THEN df' = DataFrame(res) /\ out' = NoOut /\ pc' = "end"
       ELSE df' = df /\ out' = Raised("NameError") /\ pc' = "halted"
    /\ UNCHANGED <<table, call, sel, folds, decoder, pred, cell, res, clf,
                 fmri, workers, glm, act>>

InitSweep ==
    /\ table \in GlmTables
    /\ clf \in [1..NCells -> Quality]
    /\ pc = "idle"
    /\ call = NoCall
    /\ sel = NoSel
    /\ folds = <<>>
    /\ decoder = NoDecoder
    /\ pred = <<>>
    /\ out = NoOut
    /\ cell = 1
    /\ res = [i \in 1..NCells |-> Unbound]
    /\ df = NoFrame
    /\ fmri = BlankImage(table)
    /\ workers = <<>>
    /\ glm = NoGlm
    /\ act = NoAct

NextSweep ==
    \/ RunCell
    \/ SelectData
    \/ FitRaises
    \/ FitSplit
    \/ FitFoldClf
    \/ FoldRaises
    \/ PrintClassAccuracy
    \/ CellReturns
    \/ KernelStops
    \/ UserRunsNext
    \/ BuildFrame

SpecSweep == InitSweep /\ [][NextSweep]_vars

\* the user runs the sweep cells again from the first one, in the same
\* kernel: the names and the DataFrame of the earlier run are still bound
RerunSweep ==
    /\ pc \in {"end", "halted"}
    /\ cell' = 1
    /\ pc' = "idle"
    /\ UNCHANGED <<table, call, sel, folds, decoder, pred, out, res, df, clf,
                   fmri, workers, glm, act>>

NextRerun ==
    \/ NextSweep
    \/ RerunSweep

SpecRerun == InitSweep /\ [][NextRerun]_vars

-----------------------------------------------------------------------------
(* run_class_zmap on the GLM patterns, with any condition array *)

InitZmap ==
    /\ table \in GlmTables
    /\ clf \in [{0} -> Quality]
    /\ pc = "idle"
    /\ call = NoCall
    /\ sel = NoSel
    /\ folds = <<>>
    /\ decoder = NoDecoder
    /\ pred = <<>>
    /\ out = NoOut
    /\ cell = 0
    /\ res = <<>>
    /\ df = NoFrame
    /\ fmri = BlankImage(table)
    /\ workers = <<>>
    /\ glm = NoGlm
    /\ act = NoAct

NextZmap ==
    \/ \E c \in (SUBSET Conditions) \ {{}} : CallEval("run_class_zmap", "mask_vt", c)
    \/ SelectData
    \/ FitRaises
    \/ FitSplit
    \/ FitFoldClf
    \/ FoldRaises
    \/ PrintClassAccuracy

SpecZmap == InitZmap /\ [][NextZmap]_vars

-----------------------------------------------------------------------------
(* Evaluations of a label table with every category in every run *)

\* a table of face rows followed by house rows, each category with reps rows
\* in each of nruns runs: for nruns = 3 and reps = 2 the runs of each
\* category are 0, 0, 1, 1, 2, 2
BalancedTable(nruns, reps) ==
    [i \in 1..(2 * nruns * reps) |->
        [labels |-> IF i <= nruns * reps THEN "face" ELSE "house",
         chunks |-> ((i - 1) % (nruns * reps)) \div reps]]

BalancedTables == {BalancedTable(n, r) : n \in 1..MaxBalancedRuns, r \in 1..2}

InitBalanced ==
    /\ table \in BalancedTables
    /\ clf \in [{0} -> Quality]
    /\ pc = "idle"
    /\ call = NoCall
    /\ sel = NoSel
    /\ folds = <<>>
    /\ decoder = NoDecoder
    /\ pred = <<>>
    /\ out = NoOut
    /\ cell = 0
    /\ res = <<>>
    /\ df = NoFrame
    /\ fmri = BlankImage(table)
    /\ workers = <<>>
    /\ glm = NoGlm
    /\ act = NoAct

NextBalanced ==
    \/ \E fn \in {"svm_loro_cv", "run_class_zmap"}, c \in (SUBSET Conditions) \ {{}} :
            CallEval(fn, "mask_vt", c)
    \/ SelectData
    \/ FitRaises
    \/ FitSplit
    \/ FitFoldClf
    \/ FoldRaises
    \/ PrintClassAccuracy

SpecBalanced == InitBalanced /\ [][NextBalanced]_vars

-----------------------------------------------------------------------------
(* svm_loro_cv with a deterministic classifier *)

InitVerify ==
    /\ table \in Tables
    /\ clf \in [{0} -> Quality]
    /\ pc = "idle"
    /\ call = NoCall
    /\ sel = NoSel
    /\ folds = <<>>
    /\ decoder = NoDecoder
    /\ pred = <<>>
    /\ out = NoOut
    /\ cell = 0
    /\ res = <<>>
    /\ df = NoFrame
    /\ fmri = BlankImage(table)
    /\ workers = <<>>
    /\ glm = NoGlm
    /\ act = NoAct

NextVerify ==
    \/ \E c \in ConditionArrays : CallEval("svm_loro_cv", "mask_vt", c)
    \/ SelectData
    \/ FitRaises
    \/ FitSplit
    \/ FitFoldClf
    \/ FoldRaises
    \/ PrintClassAccuracy

SpecVerify == InitVerify /\ [][NextVerify]_vars

-----------------------------------------------------------------------------
(* Evaluations of an image whose voxel values are given *)

\* face and house rows in acquisition order
FaceHouseTables ==
    {t \in Tables : \A i \in 1..Len(t) : t[i].labels \in FvH}

InitStd ==
    /\ table \in FaceHouseTables
    /\ fmri \in [1..Len(table) -> Voxel]
    /\ clf \in [{0} -> Quality]
    /\ pc = "idle"
    /\ call = NoCall
    /\ sel = NoSel
    /\ folds = <<>>
    /\ decoder = NoDecoder
    /\ pred = <<>>
    /\ out = NoOut
    /\ cell = 0
    /\ res = <<>>
    /\ df = NoFrame
    /\ workers = <<>>
    /\ glm = NoGlm
    /\ act = NoAct

NextStd ==
    \/ \E fn \in {"svm_loro_cv", "run_class_zmap"} : CallEval(fn, "mask_vt", FvH)
    \/ SelectData
    \/ FitRaises
    \/ FitSplit
    \/ FitFoldClf
    \/ FoldRaises
    \/ PrintClassAccuracy

SpecStd == InitStd /\ [][NextStd]_vars

-----------------------------------------------------------------------------
(* The combinations of the sweep on independent workers *)

\* GLM patterns of one run or of MaxGlmRuns runs, with every condition or
\* with every condition but shoe
WorkerTables ==
    {GlmTable(n, tu) : n \in {1, MaxGlmRuns},
                       tu \in {Conditions, {"cat", "face", "house"}}}

\* worker i takes combination i and makes its selection
WorkerStarts(i) ==
    /\ pc = "idle"
    /\ workers[i].pc = "idle"
    /\ workers' = [workers EXCEPT ![i] =
            [pc |-> "fit",
             sel |-> zmap_select(Frames(table), Column(table, "labels"),
                                 Column(table, "chunks"), Combos[i].categories)]]
    /\ UNCHANGED <<table, pc, call, sel, folds, decoder, pred, out, cell, res,
                   df, clf, fmri, glm, act>>

\* the evaluation of worker i on its selection, as run_class_zmap ends
WorkerOut(i) ==
    Returned(DecoderFit(RocAuc, workers[i].sel.cond_sel,
                        workers[i].sel.run_sel, clf[i]))

\* worker i fits its decoder and delivers its result under the name of its
\* combination, or ends with the exception
WorkerFinishes(i) ==
    /\ pc = "idle"
    /\ workers[i].pc = "fit"
    /\ LET o == WorkerOut(i)
       IN  /\ workers' = [workers EXCEPT ![i].pc = o.kind]
           /\ res' = IF o.kind = "returned"
                     THEN [res EXCEPT ![i] = Bound(o.classification_accuracy)]
                     ELSE res
    /\ UNCHANGED <<table, pc, call, sel, folds, decoder, pred, out, cell, df,
                   clf, fmri, glm, act>>

AllFinished == \A i \in 1..NCells : workers[i].pc \in {"returned", "raised"}

\* the results are merged into the table, as the DataFrame cell does
MergeRows ==
    /\ pc = "idle"
    /\ AllFinished
    /\ IF AllBound
       THEN df' = DataFrame(res) /\ out' = NoOut /\ pc' = "end"
       ELSE df' = df /\ out' = Raised("NameError") /\ pc' = "halted"
    /\ UNCHANGED <<table, call, sel, folds, decoder, pred, cell, res, clf,
                   fmri, workers, glm, act>>

InitWorkers ==
    /\ table \in WorkerTables
    /\ clf \in [1..NCells -> Quality]
    /\ workers = [i \in 1..NCells |-> [pc |-> "idle", sel |-> NoSel]]
    /\ pc = "idle"
    /\ call = NoCall
    /\ sel = NoSel
    /\ folds = <<>>
    /\ decoder = NoDecoder
    /\ pred = <<>>
    /\ out = NoOut
    /\ cell = 0
    /\ res = [i \in 1..NCells |-> Unbound]
    /\ df = NoFrame
    /\ fmri = BlankImage(table)
    /\ glm = NoGlm
    /\ act = NoAct

NextWorkers ==
    \/ \E i \in 1..NCells : WorkerStarts(i)
    \/ \E i \in 1..NCells : WorkerFinishes(i)
    \/ MergeRows

SpecWorkers == InitWorkers /\ [][NextWorkers]_vars

-----------------------------------------------------------------------------
(* An evaluation of a label table whose rows are in any order of run *)

\* select_data and LeaveOneGroupOut take any behavioral table: the runs of
\* its rows need not ascend
ShuffledTables ==
    UNION {[1..n -> [labels : FvH, chunks : Runs]] : n \in 0..MaxLen}

InitOrder ==
    /\ table \in ShuffledTables
    /\ clf \in [{0} -> Quality]
    /\ pc = "idle"
    /\ call = NoCall
    /\ sel = NoSel
    /\ folds = <<>>
    /\ decoder = NoDecoder
    /\ pred = <<>>
    /\ out = NoOut
    /\ cell = 0
    /\ res = <<>>
    /\ df = NoFrame
    /\ fmri = BlankImage(table)
    /\ workers = <<>>
    /\ glm = NoGlm
    /\ act = NoAct

SpecOrder == InitOrder /\ [][NextStd]_vars

-----------------------------------------------------------------------------
(* GLM patterns: the per-run lists and the z-map loop *)

\* the trial types of events.csv
TrialTypes == {"face", "house"}

\* the run numbers of events.csv: the file numbers its runs on its own, and
\* holds the events of at most two runs
EventRuns == {0, MaxRun}

\* events.csv: one row per event, in any order
EventTables ==
    UNION {[1..n -> [run : EventRuns, trial_type : TrialTypes]] : n \in 0..MaxLen}

\* the label table of the session: every run of S has two frames, the runs
\* one after the other
RECURSIVE RunRows(_)
RunRows(S) ==
    IF S = {} THEN <<>>
    ELSE LET m == CHOOSE x \in S : \A y \in S : x <= y
         IN  <<[labels |-> "face", chunks |-> m], [labels |-> "house", chunks |-> m]>>
                \o RunRows(S \ {m})

SessionTables == {RunRows(S) : S \in SUBSET Runs}

\* run_nums = np.unique(events['run'])
run_nums(events) == np_unique(Column(events, "run"))

\* index_img(fmri, tr_info['chunks'] == run_i): the frames of run run_i
RunFrames(tr_info, run_i) ==
    BoolIndex(Frames(tr_info), [i \in 1..Len(tr_info) |-> tr_info[i].chunks = run_i])

\* events[events['run'] == run_i]: the rows of run run_i, under their index
RunEvents(events, run_i) ==
    BoolIndex(Frames(events), [i \in 1..Len(events) |-> events[i].run = run_i])

\* a list that takes the frames by the position of the run in run_nums
fmri_runs_ByPosition(tr_info, nums) ==
    [k \in 1..Len(nums) |-> RunFrames(tr_info, k - 1)]

\* fmri_runs = [index_img(fmri, tr_info['chunks'] == run_i) for run_i in run_nums]
fmri_runs(tr_info, nums) ==
    [k \in 1..Len(nums) |-> RunFrames(tr_info, nums[k])]

\* events_runs = [events[events['run'] == run_i] for run_i in run_nums]
events_runs(events, nums) ==
    [k \in 1..Len(nums) |-> RunEvents(events, nums[k])]

\* task_unique = np.unique(events['trial_type'])
task_unique(events) == CondSeq(Range(Column(events, "trial_type")))

\* no model has been fitted
NoModel == [frames |-> <<>>, events |-> <<>>, columns |-> {}]

\* fmri_glm.fit(run_img, run_events): the design matrix has one column per
\* trial type of the run's events
FirstLevelModel(run_img, run_events, events) ==
    [frames |-> run_img, events |-> run_events,
     columns |-> {events[e].trial_type : e \in Range(run_events)}]

\* fit refuses an image without frames (no frame times for the design matrix)
GlmFitRejects(run_img) == IF run_img = <<>> THEN "ValueError" ELSE "none"

\* compute_contrast refuses a condition that is no column of the design matrix
ContrastRejects(model, condition_i) ==
    IF condition_i \in model.columns THEN "none" ELSE "ValueError"

\* fmri_glm.compute_contrast(condition_i): the z-map of the condition, from
\* the frames and the events the model was fitted on
compute_contrast(model, condition_i) ==
    [frames |-> model.frames, events |-> model.events, contrast |-> condition_i]

\* a loop body that records the run once per run, with its first condition
GlmAppend_RunOncePerRun(g, condition_i) ==
    [g EXCEPT !.z_maps = Append(@, compute_contrast(g.fmri_glm, condition_i)),
              !.task_label_glm = Append(@, condition_i),
              !.run_label_glm = IF g.cond_i = 1 THEN Append(@, g.run_i) ELSE @]

\* the three appends of the loop body
GlmAppend(g, condition_i) ==
    [g EXCEPT !.z_maps = Append(@, compute_contrast(g.fmri_glm, condition_i)),
              !.task_label_glm = Append(@, condition_i),
              !.run_label_glm = Append(@, g.run_i)]

\* the cell that splits the image and the events by run
SplitRuns ==
    /\ glm.pc = "split"
    /\ glm' = [glm EXCEPT
                !.pc = "lists",
                !.run_nums = run_nums(glm.events),
                !.fmri_runs = fmri_runs(table, run_nums(glm.events)),
                !.events_runs = events_runs(glm.events, run_nums(glm.events))]
    /\ UNCHANGED <<table, pc, call, sel, folds, decoder, pred, out, cell, res, df,
                   clf, fmri, workers, act>>

\* the empty lists and task_unique, before the loop
StartLoop ==
    /\ glm.pc = "lists"
    /\ glm' = [glm EXCEPT
                !.pc = "for_run",
                !.z_maps = <<>>,
                !.task_label_glm = <<>>,
                !.run_label_glm = <<>>,
                !.task_unique = task_unique(glm.events),
                !.run_i = 0]
    /\ UNCHANGED <<table, pc, call, sel, folds, decoder, pred, out, cell, res, df,
                   clf, fmri, workers, act>>

\* for run_i in np.arange(len(fmri_runs)): the model of the run is fitted
GlmFit ==
    /\ glm.pc = "for_run"
    /\ glm.run_i < Len(glm.fmri_runs)
    /\ GlmFitRejects(glm.fmri_runs[glm.run_i + 1]) = "none"
    /\ glm' = [glm EXCEPT
                !.pc = "for_condition",
                !.cond_i = 1,
                !.fmri_glm = FirstLevelModel(glm.fmri_runs[glm.run_i + 1],
                                             glm.events_runs[glm.run_i + 1],
                                             glm.events)]
    /\ UNCHANGED <<table, pc, call, sel, folds, decoder, pred, out, cell, res, df,
                   clf, fmri, workers, act>>

\* the fit raises and the cell ends with the lists as they are
GlmFitRaises ==
    /\ glm.pc = "for_run"
    /\ glm.run_i < Len(glm.fmri_runs)
    /\ GlmFitRejects(glm.fmri_runs[glm.run_i + 1]) # "none"
    /\ glm' = [glm EXCEPT !.pc = "raised",
                          !.err = GlmFitRejects(glm.fmri_runs[glm.run_i + 1])]
    /\ UNCHANGED <<table, pc, call, sel, folds, decoder, pred, out, cell, res, df,
                   clf, fmri, workers, act>>

\* for condition_i in task_unique: the body of the inner loop; after the
\* last condition the outer loop moves to the next run
ComputeContrast ==
    /\ glm.pc = "for_condition"
    /\ ContrastRejects(glm.fmri_glm, glm.task_unique[glm.cond_i]) = "none"
    /\ glm' = [GlmAppend(glm, glm.task_unique[glm.cond_i]) EXCEPT
                !.pc = IF glm.cond_i = Len(glm.task_unique)
                       THEN "for_run" ELSE "for_condition",
                !.cond_i = IF glm.cond_i = Len(glm.task_unique)
                           THEN 0 ELSE glm.cond_i + 1,
                !.run_i = IF glm.cond_i = Len(glm.task_unique)
                          THEN glm.run_i + 1 ELSE glm.run_i]
    /\ UNCHANGED <<table, pc, call, sel, folds, decoder, pred, out, cell, res, df,
                   clf, fmri, workers, act>>

\* compute_contrast raises before anything is appended
ContrastRaises ==
    /\ glm.pc = "for_condition"
    /\ ContrastRejects(glm.fmri_glm, glm.task_unique[glm.cond_i]) # "none"
    /\ glm' = [glm EXCEPT !.pc = "raised",
                          !.err = ContrastRejects(glm.fmri_glm,
                                                  glm.task_unique[glm.cond_i])]
    /\ UNCHANGED <<table, pc, call, sel, folds, decoder, pred, out, cell, res, df,
                   clf, fmri, workers, act>>

\* the loop is over and the lists become numpy arrays
LoopEnds ==
    /\ glm.pc = "for_run"
    /\ glm.run_i = Len(glm.fmri_runs)
    /\ glm' = [glm EXCEPT !.pc = "done"]
    /\ UNCHANGED <<table, pc, call, sel, folds, decoder, pred, out, cell, res, df,
                   clf, fmri, workers, act>>

InitGlm ==
    /\ table \in SessionTables
    /\ glm \in {[pc |-> "split", events |-> e, run_nums |-> <<>>,
                 fmri_runs |-> <<>>, events_runs |-> <<>>, task_unique |-> <<>>,
                 run_i |-> 0, cond_i |-> 0, fmri_glm |-> NoModel,
                 z_maps |-> <<>>, task_label_glm |-> <<>>,
                 run_label_glm |-> <<>>, err |-> "none"] : e \in EventTables}
    /\ pc = "idle"
    /\ call = NoCall
    /\ sel = NoSel
    /\ folds = <<>>
    /\ decoder = NoDecoder
    /\ pred = <<>>
    /\ out = NoOut
    /\ cell = 0
    /\ res = <<>>
    /\ df = NoFrame
    /\ clf = <<>>
    /\ fmri = BlankImage(table)
    /\ workers = <<>>
    /\ act = NoAct

NextGlm ==
    \/ SplitRuns
    \/ StartLoop
    \/ GlmFit
    \/ GlmFitRaises
    \/ ComputeContrast
    \/ ContrastRaises
    \/ LoopEnds

SpecGlm == InitGlm /\ [][NextGlm]_vars

-----------------------------------------------------------------------------
(* Activation notebook: the contrast vectors and calc_prop_sig *)

\* bound on the drift order of the model
MaxDrift == 3

\* bounds on the rows (observations) and the columns (voxels) of an array
MaxObs == 2

MaxVox == 3

\* the stimulus columns of the design matrix, in the order nilearn gives them
Stimuli ==
    <<"bottle", "cat", "chair", "face", "house", "scissors", "scrambledpix", "shoe">>

\* np.zeros(n)
np_zeros(n) == [i \in 1..n |-> 0]

\* the columns of a run's design matrix under drift_model='polynomial': the
\* stimuli, one drift column per order, and the constant
design_matrix_columns(poly_drift_order) ==
    Stimuli \o [i \in 1..poly_drift_order |-> "drift"] \o <<"constant">>

\* a contrast that leaves the constant out of the zeros
contrast_face_NoConstant(poly_drift_order) ==
    <<-1, -1, -1, 7, -1, -1, -1, -1>> \o np_zeros(poly_drift_order)

\* contrast_face = np.hstack(([-1, -1, -1, 7, -1, -1, -1, -1],
\*                            np.zeros(poly_drift_order + 1)))
contrast_face(poly_drift_order) ==
    <<-1, -1, -1, 7, -1, -1, -1, -1>> \o np_zeros(poly_drift_order + 1)

\* contrast_house = np.hstack(([-1, -1, -1, -1, 7, -1, -1, -1],
\*                             np.zeros(poly_drift_order + 1)))
contrast_house(poly_drift_order) ==
    <<-1, -1, -1, -1, 7, -1, -1, -1>> \o np_zeros(poly_drift_order + 1)

\* p-values and thresholds, in hundredths
PVal == {1, 5}

Alpha == {1, 5}

\* numpy arrays of p-values: the shape and the entries in row-major order
Arrays1D ==
    UNION {{[shape |-> <<n>>, flat |-> f] : f \in [1..n -> PVal]} : n \in 1..MaxVox}

Arrays2D ==
    UNION {{[shape |-> <<rc[1], rc[2]>>, flat |-> f] : f \in [1..(rc[1] * rc[2]) -> PVal]} :
                rc \in (1..MaxObs) \X (1..MaxVox)}

\* np.sum(x < alpha): the number of entries below alpha, over the whole array
np_sum_lt(x, alpha) == Cardinality({i \in 1..Len(x.flat) : x.flat[i] < alpha})

\* len(x): the length of the first axis
len(x) == x.shape[1]

\* return np.sum(x < alpha) / len(x)
calc_prop_sig(x, alpha) ==
    IF len(x) = 0 THEN NaN ELSE Norm(<<np_sum_lt(x, alpha), len(x)>>)

\* the model is specified and fitted with the drift order of the notebook
FitModel ==
    /\ act.pc = "fit"
    /\ act' = [act EXCEPT !.pc = "contrast_face",
                          !.design = design_matrix_columns(act.poly_drift_order)]
    /\ UNCHANGED <<table, pc, call, sel, folds, decoder, pred, out, cell, res, df,
                   clf, fmri, workers, glm>>

\* the cell that sets contrast_face
ContrastFace ==
    /\ act.pc = "contrast_face"
    /\ act' = [act EXCEPT !.pc = "contrast_house",
                          !.contrast_face = contrast_face(act.poly_drift_order)]
    /\ UNCHANGED <<table, pc, call, sel, folds, decoder, pred, out, cell, res, df,
                   clf, fmri, workers, glm>>

\* the cell that sets contrast_house
ContrastHouse ==
    /\ act.pc = "contrast_house"
    /\ act' = [act EXCEPT !.pc = "prop",
                          !.contrast_house = contrast_house(act.poly_drift_order)]
    /\ UNCHANGED <<table, pc, call, sel, folds, decoder, pred, out, cell, res, df,
                   clf, fmri, workers, glm>>

\* a call calc_prop_sig(x, alpha)
CalcPropSig(x, alpha) ==
    /\ act.pc = "prop"
    /\ act' = [act EXCEPT !.pc = "end", !.x = x, !.alpha = alpha,
                          !.prop = calc_prop_sig(x, alpha)]
    /\ UNCHANGED <<table, pc, call, sel, folds, decoder, pred, out, cell, res, df,
                   clf, fmri, workers, glm>>

InitAct ==
    /\ act \in {[pc |-> "fit", poly_drift_order |-> k, design |-> <<>>,
                 contrast_face |-> <<>>, contrast_house |-> <<>>,
                 x |-> [shape |-> <<0>>, flat |-> <<>>], alpha |-> 0,
                 prop |-> NaN] : k \in 0..MaxDrift}
    /\ table = <<>>
    /\ pc = "idle"
    /\ call = NoCall
    /\ sel = NoSel
    /\ folds = <<>>
    /\ decoder = NoDecoder
    /\ pred = <<>>
    /\ out = NoOut
    /\ cell = 0
    /\ res = <<>>
    /\ df = NoFrame
    /\ clf = <<>>
    /\ fmri = <<>>
    /\ workers = <<>>
    /\ glm = NoGlm

NextAct ==
    \/ FitModel
    \/ ContrastFace
    \/ ContrastHouse
    \/ \E x \in Arrays1D \cup Arrays2D, alpha \in Alpha : CalcPropSig(x, alpha)

SpecAct == InitAct /\ [][NextAct]_vars

-----------------------------------------------------------------------------
(* Properties *)

SelectionMade == pc \notin {"idle", "select"}

FitEntered == pc \in {"fold", "print", "done", "raised"}

\* rows of the label table whose label is requested
Matching == {i \in 1..Len(table) : table[i].labels \in call.conditions_arr}

\* the k-th of those rows, counting from the top of the table
KthMatching(k) ==
    CHOOSE i \in Matching : Cardinality({j \in Matching : j <= i}) = k

\* C1: once the selection step has run, the selected labels are exactly the
\* labels of the table rows whose label is in the requested set, each once
\* and in table order; nothing outside the set is returned, no matching row
\* is dropped
C1_SelectsExactlyRequested ==
    SelectionMade =>
        /\ Len(sel.cond_sel) = Cardinality(Matching)
        /\ \A k \in 1..Len(sel.cond_sel) :
                /\ sel.cond_sel[k] = table[KthMatching(k)].labels
                /\ sel.cond_sel[k] \in call.conditions_arr

\* a selection that keeps rows on both sides of a dropped row
C1_Witness ==
    /\ pc = "fit"
    /\ \E i, j, k \in 1..Len(table) :
            /\ i < j /\ j < k
            /\ i \in Matching /\ j \notin Matching /\ k \in Matching
            /\ table[i].labels # table[k].labels

DistinctRuns == Range(sel.run_sel)

\* C2: for every selected subset the partitioner gives exactly one fold per
\* distinct run identifier, the test subsets are pairwise disjoint and cover
\* the selected subset, and a finished fit holds one score per distinct run
C2_OneFoldPerRun ==
    FitEntered =>
        /\ Len(folds) = Cardinality(DistinctRuns)
        /\ \A r \in DistinctRuns : \E k \in 1..Len(folds) : folds[k].held = r
        /\ \A j, k \in 1..Len(folds) :
                j # k => folds[j].test \cap folds[k].test = {}
        /\ UNION {folds[k].test : k \in 1..Len(folds)} = DOMAIN sel.run_sel
        /\ pc = "done" =>
                \A c \in decoder.classes_ :
                    Len(decoder.cv_scores_[c]) = Cardinality(DistinctRuns)

\* C3: in every fold the test subset is exactly the selected observations of
\* the held-out run, the train subset is exactly all the others, and no run
\* identifier occurs on both sides
C3_TrainTestSeparated ==
    \A k \in 1..Len(folds) :
        /\ folds[k].test =
                {i \in DOMAIN sel.run_sel : sel.run_sel[i] = folds[k].held}
        /\ folds[k].train = (DOMAIN sel.run_sel) \ folds[k].test
        /\ {sel.run_sel[i] : i \in folds[k].train}
                \cap {sel.run_sel[i] : i \in folds[k].test} = {}

\* three folds, each with a train subset that spans two runs
C3_Witness ==
    /\ pc = "fold"
    /\ Len(folds) = 3
    /\ \A k \in 1..Len(folds) :
            Cardinality({sel.run_sel[i] : i \in folds[k].train}) = 2

SweepOver == pc \in {"halted", "end"}

\* C4: a failing combination never aborts the sweep: when the sweep is over
\* every cell has been run and the results table holds a row for every
\* combination
C4_FailureIsolated ==
    SweepOver => cell = NCells + 1 /\ Len(df) = NCells

\* C5: selecting on categories absent from the label table gives an empty
\* subset, and the evaluation of it does not end in a raised exception
C5_EmptySelectionFlagged ==
    (SelectionMade /\ Matching = {}) =>
        /\ sel.cond_sel = <<>>
        /\ sel.run_sel = <<>>
        /\ out.kind # "raised"

\* C6: a selection with one distinct run gives exactly one fold, with an
\* empty train subset, and the evaluation does not end in a raised exception
C6_SingleRunHandled ==
    (FitEntered /\ Cardinality(DistinctRuns) = 1) =>
        /\ Len(folds) = 1
        /\ folds[1].train = {}
        /\ out.kind # "raised"

Finished == pc \in {"done", "raised"}

InUnitInterval(r) == RLe(<<0, 1>>, r) /\ RLe(r, <<1, 1>>)

\* C7: the aggregate accuracy returned lies in [0,1] when at least one fold
\* contributed a score, and the evaluation returns it flagged undefined
\* (nan) when no fold contributed
C7_InRangeOrUndefined ==
    /\ (pc = "done" /\ decoder.nfit >= 1) =>
            ~IsNaN(out.classification_accuracy)
                /\ InUnitInterval(out.classification_accuracy)
    /\ (Finished /\ decoder.nfit = 0) =>
            out.kind = "returned" /\ IsNaN(out.classification_accuracy)

\* the scores of the folds, each fold once
FoldScores == decoder.cv_scores_[PosClass(decoder.classes_)]

RECURSIVE SumUpTo(_, _)
SumUpTo(s, n) == IF n = 0 THEN <<0, 1>> ELSE RAdd(SumUpTo(s, n - 1), s[n])

Reordered(d, p) ==
    [d EXCEPT !.cv_scores_ =
        [c \in d.classes_ |-> [i \in 1..d.nfit |-> d.cv_scores_[c][p[i]]]]]

\* C8: the value print_class_accuracy returns is the sum of the per-fold
\* scores, each fold once, over the number of folds, and it is the same for
\* every order of the folds
C8_HeadlineIsMean ==
    pc = "done" =>
        /\ Len(FoldScores) = Len(folds)
        /\ REq(out.classification_accuracy,
               <<SumUpTo(FoldScores, Len(folds))[1],
                 SumUpTo(FoldScores, Len(folds))[2] * Len(folds)>>)
        /\ \A p \in Permutations(1..decoder.nfit) :
                REq(ClassificationAccuracy(Reordered(decoder, p)),
                    out.classification_accuracy)

\* three folds with three different scores
C8_Witness ==
    /\ pc = "done"
    /\ Len(FoldScores) = 3
    /\ ~REq(FoldScores[1], FoldScores[2])
    /\ ~REq(FoldScores[2], FoldScores[3])
    /\ ~REq(FoldScores[1], FoldScores[3])

\* the test observations of the fold scored last
LastTest == {i \in DOMAIN sel.run_sel : sel.run_sel[i] = folds[decoder.nfit].held}

\* C9: the score of every fold is the number of its test observations whose
\* predicted label is the true label over the number of its test
\* observations, and no fold has an empty test subset
C9_FoldScoreIsAccuracy ==
    /\ \A k \in 1..Len(folds) : folds[k].test # {}
    /\ decoder.nfit >= 1 =>
            \A c \in decoder.classes_ :
                REq(decoder.cv_scores_[c][decoder.nfit],
                    <<Cardinality({i \in LastTest : pred[i] = sel.cond_sel[i]}),
                      Cardinality(LastTest)>>)

\* the classes the selection holds
SelectedClasses == {table[i].labels : i \in Matching}

\* C10 (as amended): the chance level reported is one over the number of
\* distinct categories that occur among the selected labels
C10_ChanceIsOneOverClasses ==
    pc = "done" =>
        out.chance_level = <<1, Cardinality(SelectedClasses)>>

\* C10 (as claimed): the chance level reported is one over the number of
\* distinct categories passed to the evaluation
C10_ChanceIsOneOverRequested ==
    pc = "done" =>
        REq(out.chance_level, <<1, Cardinality(call.conditions_arr)>>)

\* an evaluation of three classes, one requested category being absent
C10_Witness ==
    /\ pc = "done"
    /\ Cardinality(SelectedClasses) = 3
    /\ Cardinality(call.conditions_arr) = 4
    /\ out.chance_level = <<1, 3>>

\* the columns of a row of the results table
Columns(row) == DOMAIN row

\* C11: the results table the sweep builds has exactly one row per
\* combination, and each row holds the category-pair label, the region label,
\* 100 times the aggregate accuracy returned for that combination, the chance
\* level and a success/failure flag
C11_TableRows ==
    pc = "end" =>
        /\ Len(df) = NCells
        /\ \A i \in 1..NCells :
                /\ df[i].categories = classification_categories[i]
                /\ df[i].roi = region_of_interest[i]
                /\ df[i].accuracy = Times100(res[RowCell[i]].value)
                /\ {"chance_level", "success"} \subseteq Columns(df[i])

\* C16: the three outputs of the selection step have the same length, and
\* the k-th selected frame, the k-th label and the k-th run identifier come
\* from one and the same row of the label table, the k-th matching row
C16_OutputsAligned ==
    SelectionMade =>
        /\ Len(sel.fmri_sel) = Len(sel.cond_sel)
        /\ Len(sel.run_sel) = Len(sel.cond_sel)
        /\ \A k \in 1..Len(sel.fmri_sel) :
                /\ sel.fmri_sel[k] = KthMatching(k)
                /\ sel.cond_sel[k] = table[sel.fmri_sel[k]].labels
                /\ sel.run_sel[k] = table[sel.fmri_sel[k]].chunks

\* a selection by select_data that drops the first row and keeps rows of two
\* runs and two labels
C16_Witness ==
    /\ pc = "fit"
    /\ call.fn = "svm_loro_cv"
    /\ Len(sel.fmri_sel) >= 2
    /\ sel.fmri_sel[1] > 1
    /\ sel.run_sel[1] # sel.run_sel[Len(sel.run_sel)]
    /\ sel.cond_sel[1] # sel.cond_sel[Len(sel.cond_sel)]

\* C17: the folds are in ascending order of the run they hold out, whatever
\* the order of the run identifiers in the selected subset, and the scores
\* of cv_scores_ follow the folds
C17_FoldsAscending ==
    /\ \A k \in 1..(Len(folds) - 1) : folds[k].held < folds[k + 1].held
    /\ decoder.nfit <= Len(folds)
    /\ \A c \in decoder.classes_ : Len(decoder.cv_scores_[c]) = decoder.nfit

\* three folds from a selection whose run identifiers descend
C17_Witness ==
    /\ pc = "fold"
    /\ Len(folds) = 3
    /\ decoder.nfit = 1
    /\ \A k \in 1..(Len(sel.run_sel) - 1) : sel.run_sel[k] >= sel.run_sel[k + 1]

\* C18: the selection step changes neither the label table, nor the image /
\* z-map array, nor the requested category set
C18_SelectorNoSideEffect ==
    [][pc = "select" =>
            /\ table' = table
            /\ fmri' = fmri
            /\ call' = call]_vars

\* the selection step of run_class_zmap has run and dropped some rows
C18_Witness ==
    /\ pc = "fit"
    /\ call.fn = "run_class_zmap"
    /\ Len(sel.cond_sel) >= 1
    /\ Len(sel.cond_sel) < Len(table)

\* C14: with a classifier that separates the categories on every split, the
\* aggregate accuracy an evaluation returns is exactly 1 (scenario 1: face
\* and house, each with the runs 0, 0, 1, 1, 2, 2)
C14_PerfectClassifierScoresOne ==
    (pc = "done" /\ clf[0] = "perfect") =>
        out.classification_accuracy = <<1, 1>>

\* scenario 1 evaluated by run_class_zmap
C14_Witness ==
    /\ pc = "done"
    /\ clf[0] = "perfect"
    /\ call.fn = "run_class_zmap"
    /\ call.conditions_arr = FvH
    /\ table = BalancedTable(3, 2)
    /\ sel.run_sel = <<0, 0, 1, 1, 2, 2, 0, 0, 1, 1, 2, 2>>
    /\ Len(folds) = 3
    /\ out.classification_accuracy = <<1, 1>>

\* C13: a second run of the sweep on the same inputs gives what the first
\* run gave: a cell that returned returns the same value again and never
\* raises, and the table built again is the table built before
C13_RerunSameTable ==
    /\ [][/\ (pc = "done" /\ cell \in 1..NCells /\ res[cell].bound) =>
                res'[cell] = res[cell]
          /\ (pc = "idle" /\ cell = NCells + 1 /\ df # NoFrame) =>
                (pc' = "end" /\ df' = df)]_vars
    /\ []((pc = "raised" /\ cell \in 1..NCells) => ~res[cell].bound)

\* the six cells have run a second time and the table of the first run, with
\* rows of different accuracy, is about to be built again
C13_Witness ==
    /\ pc = "idle"
    /\ cell = NCells + 1
    /\ df # NoFrame
    /\ \E i, j \in 1..NCells : df[i].accuracy # df[j].accuracy

\* what the call of cell i gives when it is evaluated on its own
Alone(i) ==
    run_class_zmap(Frames(table), Column(table, "labels"), Column(table, "chunks"),
                   Combos[i].categories, clf[i])

InEvaluation == pc \in {"select", "fit", "fold", "print", "done", "raised"}

\* C19: the combinations are evaluated one after the other (while one is
\* being evaluated no later one has a result and its own name is unbound),
\* and what a combination gives, a value or an exception, is what it would
\* give evaluated on its own, whatever ran before it
C19_SequentialIsolated ==
    /\ \A i \in 1..NCells : i > cell => ~res[i].bound
    /\ InEvaluation => (cell \in 1..NCells /\ ~res[cell].bound)
    /\ \A i \in 1..NCells :
            res[i].bound =>
                /\ Alone(i).kind = "returned"
                /\ res[i].value = Alone(i).classification_accuracy
    /\ (pc \in {"done", "raised"} /\ cell \in 1..NCells) => out = Alone(cell)

\* the fourth combination is being evaluated after one that returned 1, one
\* that returned 1/2 and one that raised
C19_Witness ==
    /\ pc = "fold"
    /\ cell = 4
    /\ \E i, j, k \in 1..3 :
            /\ res[i].bound /\ res[i].value = <<1, 1>>
            /\ res[j].bound /\ res[j].value = <<1, 2>>
            /\ ~res[k].bound

\* the decoder of the inline cells on the inputs of the evaluation
Inline == inline_decoder(Frames(table), table, clf[0])

\* C15: svm_loro_cv called with ('face', 'house') ends as the inline cells
\* end on the same inputs: with the same exception, or with the same
\* cross-validation scores for every class and fold
C15_WrapperSameAsInline ==
    (call.fn = "svm_loro_cv" /\ call.conditions_arr = FvH) =>
        /\ pc = "raised" => out = Raised(Inline.raised)
        /\ pc \in {"print", "done"} =>
                /\ Inline.raised = "none"
                /\ decoder.classes_ = Inline.classes_
                /\ decoder.cv_scores_ = Inline.cv_scores_

\* the wrapper has returned scores that differ between two folds
C15_Witness ==
    /\ pc = "done"
    /\ call.fn = "svm_loro_cv"
    /\ call.conditions_arr = FvH
    /\ Len(folds) >= 2
    /\ decoder.cv_scores_["face"][1] # decoder.cv_scores_["face"][2]

\* the voxel's values in the train observations of a fold
TrainSamples(img, f) ==
    BoolIndex(Samples(img, sel.fmri_sel),
              [k \in 1..Len(sel.fmri_sel) |-> k \in f.train])

\* images that differ from the image of the evaluation in the test
\* observations of the fold at most
SameOnTrain(f) ==
    {img \in [DOMAIN fmri -> Voxel] :
        \A k \in f.train : img[sel.fmri_sel[k]] = fmri[sel.fmri_sel[k]]}

\* C12: with standardization on, the mean and the variance a fitted fold was
\* standardized with are those of the fold's train observations, so an image
\* that differs in the fold's test observations only is given the same
\* transform
C12_StandardizeTrainOnly ==
    decoder.masker_.standardize =>
        \A k \in 1..decoder.nfit :
            /\ Len(TrainSamples(fmri, folds[k])) >= 2 =>
                    decoder.masker_ = ZScoreStats(TrainSamples(fmri, folds[k]))
            /\ \A img \in SameOnTrain(folds[k]) :
                    MaskerFitTransform(TRUE, Samples(img, sel.fmri_sel))
                        = decoder.masker_

\* the table of the sequential sweep: the DataFrame of the values the six
\* calls return, or no table when one of them raises
SequentialFrame ==
    IF \A i \in 1..NCells : Alone(i).kind = "returned"
    THEN DataFrame([i \in 1..NCells |-> Bound(Alone(i).classification_accuracy)])
    ELSE NoFrame

GlmLooping == glm.pc \in {"for_run", "for_condition", "done", "raised"}

\* the entries of the three lists that belong to run index r and condition c
GlmEntries(r, c) ==
    {k \in 1..Len(glm.z_maps) :
        glm.run_label_glm[k] = r /\ glm.task_label_glm[k] = c}

\* C21: at every iteration of the GLM loop z_maps, task_label_glm and
\* run_label_glm have the same length and entry k of each belongs to the
\* same run and condition (z-map k is the contrast of condition
\* task_label_glm[k] in the model fitted on the lists' element
\* run_label_glm[k]); when the loop has ended there are runs x conditions
\* entries and every (run index, condition) pair occurs exactly once
C21_GlmListsAligned ==
    GlmLooping =>
        /\ Len(glm.z_maps) = Len(glm.task_label_glm)
        /\ Len(glm.task_label_glm) = Len(glm.run_label_glm)
        /\ \A k \in 1..Len(glm.z_maps) :
                /\ glm.z_maps[k].contrast = glm.task_label_glm[k]
                /\ glm.z_maps[k].frames = glm.fmri_runs[glm.run_label_glm[k] + 1]
                /\ glm.z_maps[k].events = glm.events_runs[glm.run_label_glm[k] + 1]
        /\ glm.pc = "done" =>
                /\ Len(glm.z_maps) = Len(glm.fmri_runs) * Len(glm.task_unique)
                /\ \A r \in 0..(Len(glm.fmri_runs) - 1) :
                        \A c \in Range(glm.task_unique) :
                            Cardinality(GlmEntries(r, c)) = 1

\* the loop has ended over two runs with two conditions each
C21_Witness ==
    /\ glm.pc = "done"
    /\ Len(glm.fmri_runs) = 2
    /\ Len(glm.task_unique) = 2
    /\ Len(glm.z_maps) = 4

\* the runs numbered in the events table
EventRunNumbers == {glm.events[e].run : e \in 1..Len(glm.events)}

\* the elements of a per-run list that hold entry x
ElementsWith(list, x) == {k \in 1..Len(list) : x \in Range(list[k])}

\* C22: once the lists are built, run_nums, fmri_runs and events_runs have
\* one element per distinct run number of the events table, ascending;
\* element k of fmri_runs holds exactly the frames whose chunk is
\* run_nums[k], element k of events_runs exactly the events whose run is
\* run_nums[k]; every event and every frame is in exactly one element
C22_PerRunPartition ==
    glm.pc \notin {"off", "split"} =>
        /\ Len(glm.run_nums) = Cardinality(EventRunNumbers)
        /\ Len(glm.fmri_runs) = Len(glm.run_nums)
        /\ Len(glm.events_runs) = Len(glm.run_nums)
        /\ \A k \in 1..(Len(glm.run_nums) - 1) : glm.run_nums[k] < glm.run_nums[k + 1]
        /\ \A k \in 1..Len(glm.run_nums) :
                /\ Range(glm.fmri_runs[k]) =
                        {f \in 1..Len(table) : table[f].chunks = glm.run_nums[k]}
                /\ Range(glm.events_runs[k]) =
                        {e \in 1..Len(glm.events) : glm.events[e].run = glm.run_nums[k]}
        /\ \A e \in 1..Len(glm.events) :
                Cardinality(ElementsWith(glm.events_runs, e)) = 1
        /\ \A f \in 1..Len(table) :
                Cardinality(ElementsWith(glm.fmri_runs, f)) = 1

\* the acquisition runs of the frames a z-map was computed from
AcquisitionRuns(z) == {table[f].chunks : f \in Range(z.frames)}

\* the z-maps whose frames were acquired in run r
ZmapsOfRun(r) ==
    {k \in 1..Len(glm.z_maps) : AcquisitionRuns(glm.z_maps[k]) = {r}}

\* C23: the run label of every z-map names, as a position in run_nums, the
\* one acquisition run whose frames and whose events the z-map was computed
\* from, and every fold that LeaveOneGroupOut makes of run_label_glm tests
\* the z-maps of one acquisition run and trains on the z-maps of the others
C23_RunLabelIsAcquisitionRun ==
    GlmLooping =>
        /\ \A k \in 1..Len(glm.z_maps) :
                LET r == glm.run_nums[glm.run_label_glm[k] + 1]
                IN  /\ AcquisitionRuns(glm.z_maps[k]) = {r}
                    /\ Range(glm.z_maps[k].frames) =
                            {f \in 1..Len(table) : table[f].chunks = r}
                    /\ Range(glm.z_maps[k].events) =
                            {e \in 1..Len(glm.events) : glm.events[e].run = r}
        /\ \A f \in Range(LeaveOneGroupOut(glm.run_label_glm)) :
                \E r \in Runs :
                    /\ f.test = ZmapsOfRun(r)
                    /\ f.train = (1..Len(glm.z_maps)) \ ZmapsOfRun(r)

\* the loop has ended with z-maps of two acquisition runs, one of them with
\* a run number that is not its position in run_nums
C23_Witness ==
    /\ glm.pc = "done"
    /\ Len(LeaveOneGroupOut(glm.run_label_glm)) = 2
    /\ \E k \in 1..Len(glm.z_maps) :
            glm.run_nums[glm.run_label_glm[k] + 1] # glm.run_label_glm[k]

\* a contrast vector for the design: zero sum, 7 on the column of target, -1
\* on the seven other stimulus columns, 0 on every drift column and on the
\* constant, and as long as 8 stimuli, the drift orders and the constant
CategoryVsEverything(contrast, target) ==
    /\ SeqSum(contrast) = 0
    /\ Len(contrast) = 8 + act.poly_drift_order + 1
    /\ Len(contrast) = Len(act.design)
    /\ \A i \in 1..Len(contrast) :
            contrast[i] = IF act.design[i] = target THEN 7
                          ELSE IF act.design[i] \in Range(Stimuli) THEN -1
                          ELSE 0
    /\ Cardinality({i \in 1..Len(contrast) : contrast[i] = -1}) = 7

\* C26: for every polynomial drift order, contrast_face and contrast_house
\* sum to zero, weigh their category's column of the design matrix 7 and
\* the seven other stimulus columns -1, weigh every drift column and the
\* constant 0, and have length 8 + poly_drift_order + 1
C26_ContrastVectors ==
    /\ act.pc \in {"contrast_house", "prop", "end"} =>
            CategoryVsEverything(act.contrast_face, "face")
    /\ act.pc \in {"prop", "end"} =>
            CategoryVsEverything(act.contrast_house, "house")

\* both contrasts are set for a model without drift columns (order 0)
C26_Witness ==
    /\ act.pc = "prop"
    /\ act.poly_drift_order = 0
    /\ Len(act.contrast_face) = 9
    /\ act.contrast_house[5] = 7

\* the number of voxels of an array: the length of its last axis
Voxels(x) == x.shape[Len(x.shape)]

\* C25: calc_prop_sig(x, alpha) returns the number of entries of x strictly
\* below alpha divided by the number of voxels, a value in [0,1], for a 2D
\* array (observations by voxels) and for a 1D array of p-values
C25_ProportionOfVoxels ==
    act.pc = "end" =>
        /\ act.prop = Norm(<<np_sum_lt(act.x, act.alpha), Voxels(act.x)>>)
        /\ InUnitInterval(act.prop)

\* the categories and the mask that the labels of a table row name
NamedCategories(name) == IF name = "Faces vs. Places" THEN FvH ELSE CvS

NamedMask(roi) ==
    IF roi = "VTC" THEN "mask_vt" ELSE IF roi = "FFA" THEN "mask_face" ELSE "mask_house"

\* the sweep cells whose combination the labels of row i name
NamedCells(i) ==
    {j \in 1..NCells :
        /\ Combos[j].categories = NamedCategories(df[i].categories)
        /\ Combos[j].mask = NamedMask(df[i].roi)}

\* C24: in the DataFrame every row's labels name one combination of the
\* sweep, the row's accuracy is 100 x the result of that combination (the
\* value its cell bound, which is what run_class_zmap gives for it), the
\* rows are faces-vs-places in VTC, FFA, PPA and then cats-vs-shoes in VTC,
\* FFA, PPA, and no two rows name the same combination
C24_RowsAligned ==
    df # NoFrame =>
        /\ Len(df) = NCells
        /\ \A i \in 1..NCells :
                /\ Cardinality(NamedCells(i)) = 1
                /\ \A j \in NamedCells(i) :
                        /\ res[j].bound
                        /\ df[i].accuracy = Times100(res[j].value)
                        /\ Alone(j).kind = "returned"
                        /\ df[i].accuracy = Times100(Alone(j).classification_accuracy)
        /\ [i \in 1..NCells |-> <<df[i].categories, df[i].roi>>] =
                <<<<"Faces vs. Places", "VTC">>, <<"Faces vs. Places", "FFA">>,
                  <<"Faces vs. Places", "PPA">>, <<"Cats vs. Shoes", "VTC">>,
                  <<"Cats vs. Shoes", "FFA">>, <<"Cats vs. Shoes", "PPA">>>>
        /\ \A i, k \in 1..NCells : NamedCells(i) = NamedCells(k) => i = k

\* the table is built and its FFA and PPA rows of faces-vs-places, which the
\* cells computed in the other order, differ in accuracy
C24_Witness ==
    /\ pc = "end"
    /\ df # NoFrame
    /\ df[2].accuracy # df[3].accuracy
    /\ df[2].accuracy = Times100(res[5].value)

\* the sweep cell that ran last has returned
CellJustReturned == pc = "idle" /\ cell \in 2..(NCells + 1) /\ out.kind = "returned"

C28_SelectionsAgree ==
    SelectionMade =>
        /\ ListIn(Column(table, "labels"), call.conditions_arr) =
                IsIn(Column(table, "labels"), call.conditions_arr)
        /\ sel = zmap_select(Frames(table), Column(table, "labels"),
                             Column(table, "chunks"), call.conditions_arr)
        /\ sel = select_data(Frames(table), table, call.conditions_arr)

\* run_class_zmap has selected some rows of two runs and left others out
C28_Witness ==
    /\ pc = "fit"
    /\ call.fn = "run_class_zmap"
    /\ Len(sel.cond_sel) >= 2
    /\ Len(sel.cond_sel) < Len(table)
    /\ Cardinality(Range(sel.run_sel)) = 2
    /\ sel.fmri_sel[1] # 1

====
